---- MODULE Spec2Model ----
(***************************************************************************)
(* targzsize: the streaming pipeline of main.go.                           *)
(*                                                                         *)
(*   main        runs mainFile once per path and prints the total          *)
(*   mainFile    wires ProcessFile -> items -> AddItems -> lines ->        *)
(*               WriteLines and waits for the two contexts and the result  *)
(*   ProcessFile goroutine: open, gzip, tar, one Item per header           *)
(*   AddItems    goroutine: dest.Add per Item, one StatusLine per Item     *)
(*   WriteLines  goroutine: renders every StatusLine to standard error     *)
(*                                                                         *)
(* The running total is a math/big Int: a sign and a slice of Words.  The  *)
(* slice is modelled as (backing array, len, cap) over a heap of arrays,   *)
(* because StatusLine{Total: *dest} copies the slice header, not the       *)
(* array.  Words are scaled down from 2^64 to WordBase.                    *)
(***************************************************************************)
EXTENDS Integers, Sequences, FiniteSets, TLC

\* ------------------------------------------------------------------ bounds
MaxFiles == 2
MaxEntries == 3
MaxSize == 5
MaxChanBuffer == 2
WordBase == 6

\* ------------------------------------------------------------ input domain
TypeReg == "0"
TypeDir == "5"

\* The headers tgz.Next may return: regular files of size 1 and MaxSize and
\* an entry of another type (a directory) whose size field is not zero.  An
\* archive may hold the same header more than once.
Headers ==
  { [Typeflag |-> TypeReg, Size |-> 1, Name |-> "a"],
    [Typeflag |-> TypeReg, Size |-> MaxSize, Name |-> "b"],
    [Typeflag |-> TypeDir, Size |-> MaxSize, Name |-> "d"] }
NoHeader == [Typeflag |-> "-", Size |-> 0, Name |-> "-"]

FilePath(i) == <<"f1", "f2", "f3", "f4">>[i]

VARIABLES
  nfiles,          \* len(files), flag.Args()
  silentFlag,      \* -no-progress
  humanFlag,       \* -human
  chanBufferSize,  \* capacity of items and lines (100 in the source, 1 or
                   \* MaxChanBuffer here)
  mainPc,          \* position of main
  fileIdx,         \* index of the path main is at
  total,           \* var total big.Int of main
  heap,            \* backing arrays of the Word slices
  stderr,          \* what was written to standard error
  stdout,          \* what was written to standard output
  mfPc,            \* position of mainFile
  mfErr,           \* what the last mainFile returned
  items, itemsClosed,
  lines, linesClosed,
  errChan, errClosed,
  countDone,       \* countCtx cancelled
  writerDone,      \* writerCtx cancelled
  pfPc,            \* position of the ProcessFile goroutine
  fileOpen,        \* the os.File is open
  header,          \* the header tgz.Next returned
  nread,           \* headers read by the process so far
  aiPc,            \* position of the AddItems goroutine
  aiItem,          \* its loop variable
  wlPc,            \* position of the WriteLines goroutine
  wlItem,          \* its loop variable
  \* history of the run, written by no code path and read by none
  startTotal,      \* value of total when the current mainFile was called
  archive,         \* headers tgz.Next returned in the current archive
  outcome,         \* how the reading of the current archive ended
  emitted,         \* Items sent on items in the current mainFile
  sentLines,       \* StatusLines sent on lines, with the value at the send
  recvLines,       \* StatusLines received by WriteLines in the current mainFile
  runs,            \* one record per returned mainFile
  opened           \* indices of the paths os.Open was called on

vars == <<nfiles, silentFlag, humanFlag, chanBufferSize, mainPc, fileIdx, total,
          heap, stderr, stdout, mfPc, mfErr, items, itemsClosed, lines,
          linesClosed, errChan, errClosed, countDone, writerDone, pfPc,
          fileOpen, header, nread, aiPc, aiItem, wlPc, wlItem, startTotal,
          archive, outcome, emitted, sentLines, recvLines, runs, opened>>

mainVars == <<nfiles, silentFlag, humanFlag, chanBufferSize, mainPc, fileIdx, stdout>>
histVars == <<startTotal, archive, outcome, emitted, sentLines, recvLines, runs, opened>>
pfVars == <<pfPc, fileOpen, header, nread>>
aiVars == <<aiPc, aiItem>>
wlVars == <<wlPc, wlItem>>

\* ------------------------------------------------------- math/big: nat, Int
\* A nil slice.
NilNat == [arr |-> 0, len |-> 0, cap |-> 0]

\* The zero value of big.Int.
ZeroInt == [neg |-> FALSE, abs |-> NilNat]

\* The Words a slice header denotes in heap h: h[arr][0:len].
Words(h, z) == IF z.len = 0 THEN << >> ELSE SubSeq(h[z.arr], 1, z.len)

RECURSIVE WordsValue(_)
\* The number a little-endian Word sequence denotes.
WordsValue(w) == IF w = << >> THEN 0 ELSE w[1] + WordBase * WordsValue(Tail(w))

\* The number a big.Int denotes when read through heap h.
IntValue(h, x) == IF x.neg THEN 0 - WordsValue(Words(h, x.abs)) ELSE WordsValue(Words(h, x.abs))

RECURSIVE NatWords(_)
\* The Words of a non-negative number, no leading zero Word.
NatWords(v) == IF v = 0 THEN << >> ELSE <<v % WordBase>> \o NatWords(v \div WordBase)

\* big.NewInt(x) for x >= 0: the Words of a freshly allocated Int.
NewInt(x) == NatWords(x)

Zeros(n) == [i \in 1..n |-> 0]

\* nat.make(n): reuse z when its capacity suffices, else allocate
\* (one Word exactly for n = 1, n + 4 Words otherwise).
natMake(h, z, n) ==
  IF n <= z.cap
    THEN [heap |-> h, abs |-> [z EXCEPT !.len = n]]
    ELSE LET id == Len(h) + 1
             c == IF n = 1 THEN 1 ELSE n + 4
         IN [heap |-> Append(h, Zeros(c)), abs |-> [arr |-> id, len |-> n, cap |-> c]]

\* Store Words w at z[0:len(w)] of the backing array.
natStore(h, z, w) ==
  IF w = << >> THEN h
  ELSE [h EXCEPT ![z.arr] = [i \in 1..Len(h[z.arr]) |-> IF i <= Len(w) THEN w[i] ELSE h[z.arr][i]]]

RECURSIVE natNormLen(_)
\* nat.norm: drop the leading zero Words.
natNormLen(w) == IF w # << >> /\ w[Len(w)] = 0 THEN natNormLen(SubSeq(w, 1, Len(w) - 1)) ELSE Len(w)

RECURSIVE addVV_NoCarry(_, _, _, _)
\* addVV with the carry between Words dropped.
addVV_NoCarry(x, y, i, c) ==
  IF i > Len(x) THEN <<0>>
  ELSE LET yi == IF i <= Len(y) THEN y[i] ELSE 0
       IN <<(x[i] + yi) % WordBase>> \o addVV_NoCarry(x, y, i + 1, 0)

RECURSIVE addVV(_, _, _, _)
\* addVV / addVW: Word-wise sum of x and y (len(x) >= len(y)) with carry c
\* from Word i on; the last Word of the result is the final carry.
addVV(x, y, i, c) ==
  IF i > Len(x) THEN <<c>>
  ELSE LET yi == IF i <= Len(y) THEN y[i] ELSE 0
           s == x[i] + yi + c
       IN <<s % WordBase>> \o addVV(x, y, i + 1, s \div WordBase)

RECURSIVE natAdd(_, _, _, _)
\* z.add(x, y) of nat, x and y given by their Words; z may alias x.
natAdd(h, z, x, y) ==
  IF Len(x) < Len(y) THEN natAdd(h, z, y, x)
  ELSE IF Len(x) = 0 THEN [heap |-> h, abs |-> [z EXCEPT !.len = 0]]
  ELSE IF Len(y) = 0
    THEN LET m == natMake(h, z, Len(x))
         IN [heap |-> natStore(m.heap, m.abs, x), abs |-> m.abs]
  ELSE LET m == natMake(h, z, Len(x) + 1)
           w == addVV(x, y, 1, 0)
       IN [heap |-> natStore(m.heap, m.abs, w),
           abs |-> [m.abs EXCEPT !.len = natNormLen(w)]]

\* dest.Add with a fresh zero as first operand: dest becomes size.
IntAdd_Overwrite(h, dest, size) ==
  LET r == natAdd(h, dest.abs, << >>, NewInt(size))
  IN [heap |-> r.heap, int |-> [neg |-> FALSE, abs |-> r.abs]]

\* dest.Add(dest, big.NewInt(size)) for dest >= 0 and size >= 0.
IntAdd(h, dest, size) ==
  LET r == natAdd(h, dest.abs, Words(h, dest.abs), NewInt(size))
  IN [heap |-> r.heap, int |-> [neg |-> FALSE, abs |-> r.abs]]

\* ------------------------------------------------------------ totalToString
RECURSIVE DigitsOf(_)
DigitsOf(v) == IF v < 10 THEN <<v>> ELSE Append(DigitsOf(v \div 10), v % 10)

RECURSIVE oomm(_, _, _)
\* humanize: divide by 1000 until below it; the last remainder is kept.
oomm(n, m, mag) ==
  IF n >= 1000 /\ mag < 8 THEN oomm(n \div 1000, n % 1000, mag + 1)
  ELSE [n |-> n, m |-> m, mag |-> mag]

\* humanize.BigBytes(s): "%d B" below ten, else one decimal below ten units
\* and none above, with the SI unit of the magnitude.
BigBytes(s) ==
  IF s < 10 THEN [digits |-> DigitsOf(s), frac |-> << >>, unit |-> "B"]
  ELSE LET o == oomm(s, 0, 0)
           u == <<"B", "kB", "MB", "GB", "TB", "PB", "EB", "ZB", "YB">>[o.mag + 1]
           t == (o.n * 1000 + o.m + 50) \div 100
       IN IF o.n < 10
            THEN [digits |-> DigitsOf(t \div 10), frac |-> <<t % 10>>, unit |-> u]
            ELSE [digits |-> DigitsOf((o.n * 1000 + o.m + 500) \div 1000), frac |-> << >>, unit |-> u]

\* totalToString(value, human), value read through heap h.
totalToString(h, value, human) ==
  IF ~human THEN [digits |-> DigitsOf(IntValue(h, value)), frac |-> << >>, unit |-> ""]
  ELSE BigBytes(IntValue(h, value))

NoText == [digits |-> << >>, frac |-> << >>, unit |-> ""]

\* ---------------------------------------------------------------- Init
Init ==
  /\ nfiles \in 0..MaxFiles
  /\ silentFlag \in BOOLEAN
  /\ humanFlag \in BOOLEAN
  /\ chanBufferSize \in {1, MaxChanBuffer}
  /\ mainPc = "args"
  /\ fileIdx = 0
  /\ total = ZeroInt
  /\ heap = << >>
  /\ stderr = << >>
  /\ stdout = << >>
  /\ mfPc = "idle"
  /\ mfErr = "nil"
  /\ items = << >> /\ itemsClosed = FALSE
  /\ lines = << >> /\ linesClosed = FALSE
  /\ errChan = << >> /\ errClosed = FALSE
  /\ countDone = FALSE
  /\ writerDone = FALSE
  /\ pfPc = "idle"
  /\ fileOpen = FALSE
  /\ header = NoHeader
  /\ nread = 0
  /\ aiPc = "idle"
  /\ aiItem = [Path |-> "-", Size |-> 0]
  /\ wlPc = "idle"
  /\ wlItem = [Path |-> "-", Total |-> ZeroInt]
  /\ startTotal = 0
  /\ archive = << >>
  /\ outcome = "-"
  /\ emitted = << >>
  /\ sentLines = << >>
  /\ recvLines = << >>
  /\ runs = << >>
  /\ opened = << >>

\* ---------------------------------------------------------------- main
LogLine(kind, path, err, text) == [kind |-> kind, path |-> path, err |-> err, text |-> text]

\* The message logged without exiting.
mainAfterArgs_NoExit(n) == "loop"

\* main, lines 44-46: the position after the check of len(files):
\* log.Fatal exits the process.
mainAfterArgs(n) == IF n = 0 THEN "fatal" ELSE "loop"

\* main, lines 43-46: no path given is fatal.
mainArgs ==
  /\ mainPc = "args"
  /\ mainPc' = mainAfterArgs(nfiles)
  /\ fileIdx' = IF mainPc' = "loop" THEN 1 ELSE fileIdx
  /\ stderr' = IF nfiles = 0
                 THEN Append(stderr, LogLine("fatal", "-", "Need at least one file. ", NoText))
                 ELSE stderr
  /\ UNCHANGED <<nfiles, silentFlag, humanFlag, chanBufferSize, stdout, total, heap,
                 mfPc, mfErr, items, itemsClosed, lines, linesClosed, errChan,
                 errClosed, countDone, writerDone, pfVars, aiVars, wlVars, histVars>>

\* main, lines 50-51: the call of mainFile for the next path.
mainCall ==
  /\ mainPc = "loop"
  /\ fileIdx <= nfiles
  /\ mainPc' = "call"
  /\ mfPc' = "start"
  /\ startTotal' = IntValue(heap, total)
  /\ UNCHANGED <<nfiles, silentFlag, humanFlag, chanBufferSize, fileIdx, stdout,
                 total, heap, stderr, mfErr, items, itemsClosed, lines, linesClosed,
                 errChan, errClosed, countDone, writerDone, pfVars, aiVars, wlVars,
                 archive, outcome, emitted, sentLines, recvLines, runs, opened>>

\* The error logged without exiting.
mainOnResult_Continue(err) == "loop"

\* main, lines 51-54: the position after mainFile returned err.
mainOnResult(err) == IF err # "nil" THEN "fatal" ELSE "loop"

\* main, lines 51-54: a non-nil error is fatal (log.Fatalf exits the
\* process), nil moves to the next path.
mainCheck ==
  /\ mainPc = "returned"
  /\ mainPc' = mainOnResult(mfErr)
  /\ fileIdx' = IF mainPc' = "loop" THEN fileIdx + 1 ELSE fileIdx
  /\ stderr' = IF mfErr # "nil"
                 THEN Append(stderr, LogLine("fatal", FilePath(fileIdx), mfErr, NoText))
                 ELSE stderr
  /\ UNCHANGED <<nfiles, silentFlag, humanFlag, chanBufferSize, stdout, total, heap,
                 mfPc, mfErr, items, itemsClosed, lines, linesClosed, errChan,
                 errClosed, countDone, writerDone, pfVars, aiVars, wlVars, histVars>>

\* main, line 58: log.Printf of the total; the log package writes to
\* standard error.
mainPrint ==
  /\ mainPc = "loop"
  /\ fileIdx > nfiles
  /\ stderr' = Append(stderr, LogLine("total", "-", "nil", totalToString(heap, total, humanFlag)))
  /\ mainPc' = "done"
  /\ UNCHANGED <<nfiles, silentFlag, humanFlag, chanBufferSize, fileIdx, stdout,
                 total, heap, mfPc, mfErr, items, itemsClosed, lines, linesClosed,
                 errChan, errClosed, countDone, writerDone, pfVars, aiVars, wlVars,
                 histVars>>

\* ------------------------------------------------------------- mainFile
\* The result channel read before the two contexts.
mfAfterStart_ResultFirst == "recvResult"

\* Only the context of WriteLines awaited.
mfAfterStart_SkipCount == "waitWriter"

\* mainFile, lines 84-87: after the goroutines are started, mainFile first
\* waits for countCtx.
mfAfterStart == "waitCount"

\* mainFile, lines 74-82: log the path unless silent, make the two
\* channels, start the three goroutines.
mfStart ==
  /\ mfPc = "start"
  /\ stderr' = IF silentFlag THEN stderr
               ELSE Append(stderr, LogLine("reading", FilePath(fileIdx), "nil", NoText))
  /\ lines' = << >> /\ linesClosed' = FALSE
  /\ items' = << >> /\ itemsClosed' = FALSE
  /\ errChan' = << >> /\ errClosed' = FALSE
  /\ countDone' = FALSE
  /\ writerDone' = FALSE
  /\ pfPc' = "open" /\ fileOpen' = FALSE /\ header' = NoHeader
  /\ aiPc' = "recv"
  /\ wlPc' = "recv"
  /\ mfPc' = mfAfterStart
  /\ archive' = << >> /\ outcome' = "-"
  /\ emitted' = << >> /\ sentLines' = << >> /\ recvLines' = << >>
  /\ UNCHANGED <<mainVars, total, heap, mfErr, nread, aiItem, wlItem, startTotal, runs,
                 opened>>

\* The wait for writerCtx left out.
mfAfterCount_SkipWriter == "recvResult"

\* mainFile, lines 84-85: after countCtx, mainFile waits for writerCtx.
mfAfterCount == "waitWriter"

\* mainFile, line 84: <-countCtx.Done()
mfWaitCount ==
  /\ mfPc = "waitCount"
  /\ countDone
  /\ mfPc' = mfAfterCount
  /\ UNCHANGED <<mainVars, total, heap, stderr, mfErr, items, itemsClosed, lines,
                 linesClosed, errChan, errClosed, countDone, writerDone, pfVars,
                 aiVars, wlVars, histVars>>

\* mainFile, line 85: <-writerCtx.Done()
mfWaitWriter ==
  /\ mfPc = "waitWriter"
  /\ writerDone
  /\ mfPc' = "recvResult"
  /\ UNCHANGED <<mainVars, total, heap, stderr, mfErr, items, itemsClosed, lines,
                 linesClosed, errChan, errClosed, countDone, writerDone, pfVars,
                 aiVars, wlVars, histVars>>

\* What one returned mainFile leaves in the history.
RunRecord(err) ==
  [file |-> fileIdx, start |-> startTotal, end |-> IntValue(heap, total),
   err |-> err, archive |-> archive, outcome |-> outcome, emitted |-> emitted,
   nlines |-> Len(sentLines), recvPaths |-> [i \in 1..Len(recvLines) |-> recvLines[i].Path],
   silent |-> silentFlag, cap |-> chanBufferSize]

\* A receive that takes every closed channel for an empty one.
ResultOf_ClosedIsNil(ch) == "nil"

\* mainFile, line 87: the value <-resultChan yields: the buffered error,
\* or nil from the closed and empty channel.
ResultOf(ch) == IF ch # << >> THEN Head(ch) ELSE "nil"

\* mainFile, line 87: return <-resultChan, blocking until an error is
\* buffered or the channel is closed.
mfReturn ==
  /\ mfPc = "recvResult"
  /\ errChan # << >> \/ errClosed
  /\ mfErr' = ResultOf(errChan)
  /\ runs' = Append(runs, RunRecord(ResultOf(errChan)))
  /\ errChan' = IF errChan # << >> THEN Tail(errChan) ELSE errChan
  /\ mfPc' = "idle"
  /\ mainPc' = "returned"
  /\ UNCHANGED <<nfiles, silentFlag, humanFlag, chanBufferSize, fileIdx, stdout,
                 total, heap, stderr, items, itemsClosed, lines, linesClosed,
                 errClosed, countDone, writerDone, pfVars, aiVars, wlVars,
                 startTotal, archive, outcome, emitted, sentLines, recvLines, opened>>

\* A send that gives up when a value is already buffered.
Send_NonBlocking(ch, v) == IF ch # << >> THEN ch ELSE Append(ch, v)

\* ch <- v on a buffered channel with a free slot.
Send(ch, v) == Append(ch, v)

\* A close that is never executed.
Close_Forgotten(closed) == closed

\* close(ch): the channel is closed from then on.
Close(closed) == TRUE

\* An unbuffered result channel.
errChanSize_Unbuffered == 1 - 1

\* ProcessFile, line 155: make(chan error, 1).
errChanSize == 1

\* A goroutine runs only while the process has not exited.
Running == mainPc # "fatal" /\ mainPc # "done"

\* ---------------------------------------------------------- ProcessFile
\* ProcessFile, lines 162-167: os.Open; a failure is sent on errChan and
\* the goroutine returns (no file to close).
pfOpen ==
  /\ Running /\ pfPc = "open"
  /\ opened' = Append(opened, fileIdx)
  /\ \E ok \in BOOLEAN :
       IF ok
         THEN /\ fileOpen' = TRUE
              /\ pfPc' = "gzip"
              /\ errChan' = errChan
         ELSE /\ Len(errChan) < errChanSize
              /\ errChan' = Send(errChan, "open")
              /\ pfPc' = "closeItems"
              /\ fileOpen' = fileOpen
  /\ outcome' = IF pfPc' = "gzip" THEN outcome ELSE "open"
  /\ UNCHANGED <<mainVars, total, heap, stderr, mfPc, mfErr, items, itemsClosed,
                 lines, linesClosed, errClosed, countDone, writerDone, header, nread,
                 aiVars, wlVars, startTotal, archive, emitted, sentLines, recvLines,
                 runs>>

\* The return after the failure left out.
pfAfterError_NoReturn == "next"

\* The return after a failure without the deferred file.Close().
pfAfterError_SkipClose == "closeItems"

\* ProcessFile, lines 173, 180 and 192: the return after a failure sent
\* with the file open runs the deferred calls, file.Close() first.
pfAfterError == "closeFile"

\* tar.NewReader never returns nil.
tarNewReader == "reader"

\* ProcessFile, lines 170-181: gzip.NewReader reads the gzip header; a
\* failure is sent on errChan.  Then tar.NewReader and its nil check.
pfGzip ==
  /\ Running /\ pfPc = "gzip"
  /\ \E ok \in BOOLEAN :
       IF ~ok
         THEN /\ Len(errChan) < errChanSize
              /\ errChan' = Send(errChan, "gzip")
              /\ pfPc' = pfAfterError
              /\ outcome' = "gzip"
         ELSE IF tarNewReader = "nil"
           THEN /\ Len(errChan) < errChanSize
                /\ errChan' = Send(errChan, "tar")
                /\ pfPc' = pfAfterError
                /\ outcome' = "tar"
           ELSE /\ errChan' = errChan
                /\ pfPc' = "next"
                /\ outcome' = outcome
  /\ UNCHANGED <<mainVars, total, heap, stderr, mfPc, mfErr, items, itemsClosed,
                 lines, linesClosed, errClosed, countDone, writerDone, fileOpen,
                 header, nread, aiVars, wlVars, startTotal, archive, emitted,
                 sentLines, recvLines, runs, opened>>

\* No Item for a header that is not a regular file.
pfAfterHeader_SkipOthers(h) == IF h.Typeflag = TypeReg THEN "send" ELSE "next"

\* ProcessFile, lines 195-206: both cases of the switch send an Item.
pfAfterHeader(h) == "send"

\* ProcessFile, lines 185-193: tgz.Next returns io.EOF, an error or the
\* next header.
pfNext ==
  /\ Running /\ pfPc = "next"
  /\ \/ /\ pfPc' = "closeFile"
        /\ outcome' = "eof"
        /\ UNCHANGED <<errChan, header, nread, archive>>
     \/ /\ Len(errChan) < errChanSize
        /\ errChan' = Send(errChan, "scan")
        /\ pfPc' = pfAfterError
        /\ outcome' = "scan"
        /\ UNCHANGED <<header, nread, archive>>
     \/ /\ nread < MaxEntries
        /\ \E h \in Headers :
             /\ header' = h
             /\ archive' = Append(archive, h)
             /\ pfPc' = pfAfterHeader(h)
        /\ nread' = nread + 1
        /\ UNCHANGED <<errChan, outcome>>
  /\ UNCHANGED <<mainVars, total, heap, stderr, mfPc, mfErr, items, itemsClosed,
                 lines, linesClosed, errClosed, countDone, writerDone, fileOpen,
                 aiVars, wlVars, startTotal, emitted, sentLines, recvLines, runs,
                 opened>>

\* The Item with the header's size whatever the type flag.
ItemOf_AnyType(h) == [Path |-> h.Name, Size |-> h.Size]

\* ProcessFile, lines 195-206: the Item of a header.
ItemOf(h) ==
  IF h.Typeflag = TypeReg THEN [Path |-> h.Name, Size |-> h.Size]
  ELSE [Path |-> h.Name, Size |-> 0]

\* ProcessFile, lines 197 and 202: items <- Item{...}, blocking while the
\* channel is full.
pfSend ==
  /\ Running /\ pfPc = "send"
  /\ Len(items) < chanBufferSize
  /\ items' = Send(items, ItemOf(header))
  /\ emitted' = emitted \o SubSeq(items', Len(items) + 1, Len(items'))
  /\ pfPc' = "next"
  /\ UNCHANGED <<mainVars, total, heap, stderr, mfPc, mfErr, itemsClosed, lines,
                 linesClosed, errChan, errClosed, countDone, writerDone, fileOpen,
                 header, nread, aiVars, wlVars, startTotal, archive, outcome,
                 sentLines, recvLines, runs, opened>>

\* ProcessFile, line 167: the deferred file.Close().
pfCloseFile ==
  /\ Running /\ pfPc = "closeFile"
  /\ fileOpen' = FALSE
  /\ pfPc' = "closeItems"
  /\ UNCHANGED <<mainVars, total, heap, stderr, mfPc, mfErr, items, itemsClosed,
                 lines, linesClosed, errChan, errClosed, countDone, writerDone,
                 header, nread, aiVars, wlVars, histVars>>

\* close(items) run a second time.
pfAfterCloseItems_Again == "closeItems"

\* ProcessFile, lines 158-159: deferred calls run last in, first out, so
\* close(errChan) follows close(items).
pfAfterCloseItems == "closeErr"

\* ProcessFile, line 159: the deferred close(items).
pfCloseItems ==
  /\ Running /\ pfPc = "closeItems"
  /\ itemsClosed' = Close(itemsClosed)
  /\ pfPc' = pfAfterCloseItems
  /\ UNCHANGED <<mainVars, total, heap, stderr, mfPc, mfErr, items, lines,
                 linesClosed, errChan, errClosed, countDone, writerDone, fileOpen,
                 header, nread, aiVars, wlVars, histVars>>

\* ProcessFile, line 158: the deferred close(errChan).
pfCloseErr ==
  /\ Running /\ pfPc = "closeErr"
  /\ errClosed' = Close(errClosed)
  /\ pfPc' = "done"
  /\ UNCHANGED <<mainVars, total, heap, stderr, mfPc, mfErr, items, itemsClosed,
                 lines, linesClosed, errChan, countDone, writerDone, fileOpen,
                 header, nread, aiVars, wlVars, histVars>>

\* ------------------------------------------------------------- AddItems
\* The silent flag ignored.
aiAfterAdd_AlwaysSend(silent, item) == "send"

\* No StatusLine for an Item of size zero.
aiAfterAdd_SkipEmpty(silent, item) == IF silent \/ item.Size = 0 THEN "recv" ELSE "send"

\* AddItems, lines 135-138: when silent, continue with the next Item,
\* else send a StatusLine for the item.
aiAfterAdd(silent, item) == IF silent THEN "recv" ELSE "send"

\* AddItems, lines 133-137: receive the next Item and add its size to
\* dest.  Receive and Add are one step: between them only this goroutine
\* touches items or writes the heap.
aiRecv ==
  /\ Running /\ aiPc = "recv"
  /\ items # << >>
  /\ aiItem' = Head(items)
  /\ items' = Tail(items)
  /\ LET r == IntAdd(heap, total, Head(items).Size)
     IN /\ heap' = r.heap
        /\ total' = r.int
  /\ aiPc' = aiAfterAdd(silentFlag, Head(items))
  /\ UNCHANGED <<mainVars, stderr, mfPc, mfErr, itemsClosed, lines, linesClosed,
                 errChan, errClosed, countDone, writerDone, pfVars, wlVars, histVars>>

\* The StatusLine of lines 138-141: Total: *dest copies the Int struct,
\* that is the sign and the slice header.
StatusLine(path, dest) == [Path |-> path, Total |-> dest]

\* AddItems, lines 138-141: lines <- StatusLine{...}, blocking while the
\* channel is full.
aiSend ==
  /\ Running /\ aiPc = "send"
  /\ Len(lines) < chanBufferSize
  /\ lines' = Send(lines, StatusLine(aiItem.Path, total))
  /\ sentLines' = Append(sentLines, [Path |-> aiItem.Path, Total |-> IntValue(heap, total)])
  /\ aiPc' = "recv"
  /\ UNCHANGED <<mainVars, total, heap, stderr, mfPc, mfErr, items, itemsClosed,
                 linesClosed, errChan, errClosed, countDone, writerDone, pfVars,
                 aiItem, wlVars, startTotal, archive, outcome, emitted, recvLines, runs,
                 opened>>

\* AddItems, line 133: the range loop ends when items is closed and drained.
aiRangeEnd ==
  /\ Running /\ aiPc = "recv"
  /\ items = << >> /\ itemsClosed
  /\ aiPc' = "closeLines"
  /\ UNCHANGED <<mainVars, total, heap, stderr, mfPc, mfErr, items, itemsClosed,
                 lines, linesClosed, errChan, errClosed, countDone, writerDone,
                 pfVars, aiItem, wlVars, histVars>>

\* AddItems, line 131: the deferred close(lines).
aiCloseLines ==
  /\ Running /\ aiPc = "closeLines"
  /\ linesClosed' = Close(linesClosed)
  /\ aiPc' = "cancel"
  /\ UNCHANGED <<mainVars, total, heap, stderr, mfPc, mfErr, items, itemsClosed,
                 lines, errChan, errClosed, countDone, writerDone, pfVars, aiItem,
                 wlVars, histVars>>

\* AddItems, line 130: the deferred cancel().
aiCancel ==
  /\ Running /\ aiPc = "cancel"
  /\ countDone' = TRUE
  /\ aiPc' = "done"
  /\ UNCHANGED <<mainVars, total, heap, stderr, mfPc, mfErr, items, itemsClosed,
                 lines, linesClosed, errChan, errClosed, writerDone, pfVars, aiItem,
                 wlVars, histVars>>

\* ----------------------------------------------------------- WriteLines
\* WriteLines, line 106: receive the next StatusLine.
wlRecv ==
  /\ Running /\ wlPc = "recv"
  /\ lines # << >>
  /\ wlItem' = Head(lines)
  /\ lines' = Tail(lines)
  /\ recvLines' = Append(recvLines, Head(lines))
  /\ wlPc' = "print"
  /\ UNCHANGED <<mainVars, total, heap, stderr, mfPc, mfErr, items, itemsClosed,
                 linesClosed, errChan, errClosed, countDone, writerDone, pfVars,
                 aiVars, startTotal, archive, outcome, emitted, sentLines, runs, opened>>

\* WriteLines, line 107: render item.Total, read through its slice header
\* at the time of the call, and the path.
wlPrint ==
  /\ Running /\ wlPc = "print"
  /\ stderr' = Append(stderr, LogLine("status", wlItem.Path, "nil",
                                      totalToString(heap, wlItem.Total, humanFlag)))
  /\ wlPc' = "recv"
  /\ UNCHANGED <<mainVars, total, heap, mfPc, mfErr, items, itemsClosed, lines,
                 linesClosed, errChan, errClosed, countDone, writerDone, pfVars,
                 aiVars, wlItem, histVars>>

\* WriteLines, lines 104-106: the range loop ends when lines is closed and
\* drained; the deferred cancel().
wlRangeEnd ==
  /\ Running /\ wlPc = "recv"
  /\ lines = << >> /\ linesClosed
  /\ writerDone' = TRUE
  /\ wlPc' = "done"
  /\ UNCHANGED <<mainVars, total, heap, stderr, mfPc, mfErr, items, itemsClosed,
                 lines, linesClosed, errChan, errClosed, countDone, pfVars, aiVars,
                 wlItem, histVars>>

\* ---------------------------------------------------------------- Next
Next ==
  \/ mainArgs \/ mainCall \/ mainCheck \/ mainPrint
  \/ mfStart \/ mfWaitCount \/ mfWaitWriter \/ mfReturn
  \/ pfOpen \/ pfGzip \/ pfNext \/ pfSend \/ pfCloseFile \/ pfCloseItems \/ pfCloseErr
  \/ aiRecv \/ aiSend \/ aiRangeEnd \/ aiCloseLines \/ aiCancel
  \/ wlRecv \/ wlPrint \/ wlRangeEnd

Spec == Init /\ [][Next]_vars

\* The steps of main and mainFile, and of each goroutine.
mainSteps ==
  \/ mainArgs \/ mainCall \/ mainCheck \/ mainPrint
  \/ mfStart \/ mfWaitCount \/ mfWaitWriter \/ mfReturn
pfSteps == pfOpen \/ pfGzip \/ pfNext \/ pfSend \/ pfCloseFile \/ pfCloseItems \/ pfCloseErr
aiSteps == aiRecv \/ aiSend \/ aiRangeEnd \/ aiCloseLines \/ aiCancel
wlSteps == wlRecv \/ wlPrint \/ wlRangeEnd

\* The Go scheduler runs every goroutine that stays runnable.
FairSpec ==
  /\ Init /\ [][Next]_vars
  /\ WF_vars(mainSteps) /\ WF_vars(pfSteps) /\ WF_vars(aiSteps) /\ WF_vars(wlSteps)

\* ------------------------------------------------------- derived values
RECURSIVE SumSizes(_)
\* Sum of the Size fields of a sequence of headers or Items.
SumSizes(q) == IF q = << >> THEN 0 ELSE q[1].Size + SumSizes(Tail(q))

RECURSIVE RegSum(_)
\* Sum of the header sizes of the regular-file headers of an archive.
RegSum(a) ==
  IF a = << >> THEN 0
  ELSE (IF a[1].Typeflag = TypeReg THEN a[1].Size ELSE 0) + RegSum(Tail(a))

AllRegular(a) == \A i \in 1..Len(a) : a[i].Typeflag = TypeReg

NamesOf(a) == [i \in 1..Len(a) |-> a[i].Name]

IsPrefix(p, q) == Len(p) <= Len(q) /\ \A i \in 1..Len(p) : p[i] = q[i]

RunIds == 1..Len(runs)

\* ------------------------------------------------------------------ C1
\* C1: a mainFile that returned nil on an archive of regular files only
\* leaves the total at its value at the call plus the sum of the header
\* sizes, as numbers (no Word wraps, no carry is lost).
C1_RegularSumExact ==
  \A k \in RunIds :
    (runs[k].err = "nil" /\ AllRegular(runs[k].archive))
      => runs[k].end = runs[k].start + SumSizes(runs[k].archive)

\* A second archive of two regular files, started from a total that is not
\* zero, whose sum carries into a second Word.
C1_Witness ==
  \E k \in RunIds :
    /\ runs[k].err = "nil" /\ AllRegular(runs[k].archive)
    /\ Len(runs[k].archive) >= 2
    /\ runs[k].start > 0
    /\ runs[k].start < WordBase /\ runs[k].end >= WordBase

\* ------------------------------------------------------------------ C2
\* C2: the Item of a header that is not a regular file has size 0 whatever
\* the header's size field, the Item of a regular file has the header's
\* size, and the total grows by the regular files' sizes only.
C2_NonRegularCountsZero ==
  /\ \A i \in 1..Len(emitted) :
       emitted[i].Size = IF archive[i].Typeflag = TypeReg THEN archive[i].Size ELSE 0
  /\ \A k \in RunIds : runs[k].end - runs[k].start = RegSum(runs[k].archive)

\* A returned run whose archive holds a non-regular header with a size
\* field above zero next to a regular file.
C2_Witness ==
  \E k \in RunIds : \E i, j \in 1..Len(runs[k].archive) :
    /\ runs[k].archive[i].Typeflag # TypeReg /\ runs[k].archive[i].Size > 0
    /\ runs[k].archive[j].Typeflag = TypeReg /\ runs[k].archive[j].Size > 0

\* ------------------------------------------------------------------ C3
\* C3: the total WriteLines reads from the StatusLine it received equals
\* the total the record held when AddItems sent it, and so does the total
\* of every record still in the lines channel.
C3_SnapshotIsValueCopy ==
  /\ wlPc = "print" =>
       IntValue(heap, wlItem.Total) = sentLines[Len(recvLines)].Total
  /\ \A i \in 1..Len(lines) :
       IntValue(heap, lines[i].Total) = sentLines[Len(recvLines) + i].Total

\* ------------------------------------------------------------------ C4
\* C4: with or without suppression the total at the return of mainFile is
\* the total at the call plus the sizes of the Items; with suppression no
\* StatusLine is sent and none is written, without it one per Item.
C4_SuppressionOnlyHidesLines ==
  /\ \A k \in RunIds :
       /\ runs[k].end = runs[k].start + SumSizes(runs[k].emitted)
       /\ runs[k].nlines = IF runs[k].silent THEN 0 ELSE Len(runs[k].emitted)
  /\ silentFlag => \A i \in 1..Len(stderr) : stderr[i].kind # "status"

\* A silent run that added something, and a run with lines.
C4_Witness ==
  \E k \in RunIds :
    /\ runs[k].end > runs[k].start
    /\ Len(runs[k].emitted) >= 2
    /\ runs[k].silent

\* ------------------------------------------------------------------ C5
\* C5: without suppression the paths of the StatusLines WriteLines has
\* received are at every moment the first paths of the archive in archive
\* order, and at the return of mainFile they are all of them.
C5_ProgressInArchiveOrder ==
  /\ ~silentFlag => IsPrefix([i \in 1..Len(recvLines) |-> recvLines[i].Path], NamesOf(archive))
  /\ \A k \in RunIds : ~runs[k].silent => runs[k].recvPaths = NamesOf(runs[k].archive)

\* A returned run with lines on an archive of three entries, two paths of
\* which differ.
C5_Witness ==
  \E k \in RunIds :
    /\ ~runs[k].silent
    /\ Len(runs[k].archive) = 3
    /\ runs[k].archive[1].Name # runs[k].archive[2].Name
    /\ runs[k].recvPaths = NamesOf(runs[k].archive)

\* ------------------------------------------------------------------ C6
RECURSIVE Fold(_, _)
\* The total after the headers of archive a, started from t.
Fold(t, a) ==
  IF a = << >> THEN t
  ELSE Fold(IF a[1].Typeflag = TypeReg THEN t + a[1].Size ELSE t, Tail(a))

\* C6: the total at a nil return of mainFile is a function of the archive
\* and of the total at the call, for each capacity of the channels and
\* every schedule; two nil runs on equal archives add the same amount, and
\* end equal when they started equal.
C6_TotalIsFunctionOfArchive ==
  /\ \A k \in RunIds :
       runs[k].err = "nil" => runs[k].end = Fold(runs[k].start, runs[k].archive)
  /\ \A j, k \in RunIds :
       (runs[j].err = "nil" /\ runs[k].err = "nil" /\ runs[j].archive = runs[k].archive)
         => /\ runs[j].end - runs[j].start = runs[k].end - runs[k].start
            /\ runs[j].start = runs[k].start => runs[j].end = runs[k].end

\* Two nil runs on the same archive, which contributes, the first started
\* from zero, with channels of capacity two.
C6_Witness ==
  /\ chanBufferSize = 2
  /\ \E j, k \in RunIds :
       /\ j < k
       /\ runs[j].err = "nil" /\ runs[k].err = "nil"
       /\ runs[j].archive = runs[k].archive
       /\ runs[j].start = 0 /\ runs[j].end > 0
       /\ runs[k].end - runs[k].start = runs[j].end

\* ------------------------------------------------------------------ C7
\* C7: when os.Open or the gzip header fails, no Item is ever sent, the
\* total stays at its value at the call, and mainFile returns the error.
C7_OpenOrGzipFailure ==
  /\ outcome \in {"open", "gzip"} =>
       /\ emitted = << >> /\ items = << >>
       /\ IntValue(heap, total) = startTotal
  /\ \A k \in RunIds :
       runs[k].outcome \in {"open", "gzip"} =>
         /\ runs[k].err # "nil"
         /\ runs[k].emitted = << >>
         /\ runs[k].end = runs[k].start

\* A second archive with a bad gzip header, after a first one that left a
\* total above zero.
C7_Witness ==
  \E k \in RunIds :
    /\ runs[k].outcome = "gzip" /\ runs[k].err = "gzip"
    /\ runs[k].start > 0 /\ runs[k].end = runs[k].start

\* ------------------------------------------------------------------ C8
\* C8: when tgz.Next fails after k headers, mainFile returns the error, the
\* k Items were all sent, and the total has grown by the sum of their sizes;
\* in every returned run the growth is the sum of the sizes of the Items
\* sent.
C8_PartialSumKept ==
  \A k \in RunIds :
    /\ runs[k].outcome = "scan" =>
         /\ runs[k].err = "scan"
         /\ Len(runs[k].emitted) = Len(runs[k].archive)
         /\ runs[k].end = runs[k].start + RegSum(runs[k].archive)
    /\ runs[k].end - runs[k].start = SumSizes(runs[k].emitted)

\* A scan failure after two Items of sizes above zero.
C8_Witness ==
  \E k \in RunIds :
    /\ runs[k].outcome = "scan" /\ runs[k].err = "scan"
    /\ Len(runs[k].emitted) = 2
    /\ runs[k].emitted[1].Size > 0 /\ runs[k].emitted[2].Size > 0
    /\ runs[k].end > runs[k].start

\* ------------------------------------------------------------------ C9
\* C9: main calls mainFile for the paths one at a time in argument order;
\* the run with an error is the last one, main is then at the fatal exit,
\* and no later path is opened.
C9_StopAtFirstError ==
  /\ \A i \in 1..Len(opened) : opened[i] = i
  /\ \A k \in RunIds : runs[k].file = k
  /\ Len(opened) <= Len(runs) + 1
  /\ Len(opened) = Len(runs) + 1 => mainPc = "call" /\ fileIdx = Len(opened)
  /\ \A k \in RunIds :
       runs[k].err # "nil" =>
         /\ k = Len(runs)
         /\ Len(opened) = k
         /\ mainPc \in {"returned", "fatal"}
         /\ mfPc = "idle"

\* Two paths given, the first fails, main has exited.
C9_Witness ==
  /\ nfiles = 2
  /\ mainPc = "fatal"
  /\ Len(runs) = 1 /\ runs[1].err # "nil"
  /\ opened = <<1>>

\* ----------------------------------------------------------------- C10
RECURSIVE DigitsValue(_)
\* The number a decimal digit string denotes.
DigitsValue(d) == IF d = << >> THEN 0 ELSE 10 * DigitsValue(SubSeq(d, 1, Len(d) - 1)) + d[Len(d)]

RECURSIVE Contributions(_)
\* Sum of the regular-file sizes of the archives of the first k runs.
Contributions(k) == IF k = 0 THEN 0 ELSE Contributions(k - 1) + RegSum(runs[k].archive)

\* C10: the total starts at 0, each mainFile starts from the total the one
\* before left, and when all paths returned nil the line main prints is
\* the decimal string (plain or with the byte unit) of the sum of the
\* archives' contributions.
C10_PrintedTotalIsSum ==
  /\ \A k \in RunIds : runs[k].start = IF k = 1 THEN 0 ELSE runs[k - 1].end
  /\ mainPc = "done" =>
       /\ Len(runs) = nfiles
       /\ \A k \in RunIds : runs[k].err = "nil"
       /\ LET t == stderr[Len(stderr)]
          IN /\ t.kind = "total"
             /\ (t.text.unit = "") = ~humanFlag
             /\ t.text.frac = << >> => DigitsValue(t.text.digits) = Contributions(nfiles)

\* Two archives that both contribute, printed as a two-digit total.
C10_Witness ==
  /\ mainPc = "done"
  /\ nfiles = 2
  /\ runs[1].end > 0 /\ runs[2].end > runs[2].start
  /\ Contributions(2) >= 10
  /\ Len(stderr[Len(stderr)].text.digits) = 2

\* ----------------------------------------------------------------- C11
\* C11: when main has printed the total, the total is on standard output.
C11_TotalOnStdout ==
  mainPc = "done" =>
    /\ stdout # << >>
    /\ stdout[Len(stdout)].kind = "total"

\* ----------------------------------------------------------------- C12
\* C12: with no path given main exits at the check of len(files): no path
\* is opened, no mainFile is called, no goroutine is started, and the only
\* output is the fatal message.
C12_NoPathIsFatal ==
  nfiles = 0 =>
    /\ mainPc \in {"args", "fatal"}
    /\ opened = << >> /\ runs = << >>
    /\ mfPc = "idle" /\ pfPc = "idle" /\ aiPc = "idle" /\ wlPc = "idle"
    /\ ~fileOpen
    /\ mainPc = "fatal" =>
         stderr = <<LogLine("fatal", "-", "Need at least one file. ", NoText)>>

\* main has exited on the empty path list.
C12_Witness ==
  /\ nfiles = 0
  /\ mainPc = "fatal"
  /\ Len(stderr) = 1 /\ stderr[1].kind = "fatal"

\* ----------------------------------------------------------------- C13
RECURSIVE StatusCount(_)
\* Number of status lines in an output.
StatusCount(out) ==
  IF out = << >> THEN 0
  ELSE (IF out[1].kind = "status" THEN 1 ELSE 0) + StatusCount(Tail(out))

RECURSIVE LinesOfRuns(_)
\* Number of StatusLines sent in the first k runs.
LinesOfRuns(k) == IF k = 0 THEN 0 ELSE LinesOfRuns(k - 1) + runs[k].nlines

\* C13: mainFile is at the receive from the result channel only when both
\* contexts are cancelled; when it has returned, with or without error,
\* items and lines are closed and empty, both goroutines have exited, the
\* total holds every Item sent, and every StatusLine sent was written.
C13_ReturnAfterBothDone ==
  /\ mfPc = "recvResult" => countDone /\ writerDone
  /\ mainPc = "returned" =>
       /\ countDone /\ writerDone
       /\ aiPc = "done" /\ wlPc = "done"
       /\ itemsClosed /\ items = << >>
       /\ linesClosed /\ lines = << >>
       /\ IntValue(heap, total) = startTotal + SumSizes(emitted)
       /\ Len(recvLines) = Len(sentLines)
       /\ StatusCount(stderr) = LinesOfRuns(Len(runs))

\* mainFile has returned an error after two Items and two StatusLines.
C13_Witness ==
  /\ mainPc = "returned"
  /\ mfErr = "scan"
  /\ Len(emitted) = 2 /\ Len(sentLines) = 2
  /\ IntValue(heap, total) > startTotal

\* ----------------------------------------------------------------- C14
\* C14: under fair scheduling every call of mainFile returns, whatever the
\* archive (valid, not openable, bad gzip header, corrupt after some
\* entries), the capacity and the silent flag: all three goroutines reach
\* their end and mainFile receives the result.
C14_MainFileReturns ==
  (mfPc = "start") ~> (mainPc = "returned" /\ aiPc = "done" /\ wlPc = "done" /\ itemsClosed /\ linesClosed)

\* A returned mainFile whose channels of capacity one were filled by an
\* archive of three entries.
C14_Witness ==
  /\ mainPc = "returned"
  /\ chanBufferSize = 1
  /\ ~silentFlag
  /\ Len(emitted) = 3 /\ Len(recvLines) = 3

\* ----------------------------------------------------------------- C15
ErrOutcomes == {"open", "gzip", "tar", "scan"}

C16_NilIffNaturalEnd ==
  /\ \A k \in RunIds :
       /\ runs[k].err = "nil" <=> runs[k].outcome = "eof"
       /\ runs[k].outcome \in ErrOutcomes => runs[k].err = runs[k].outcome
  /\ mainPc = "returned" =>
       /\ mfErr = runs[Len(runs)].err
       /\ mfErr = IF outcome = "eof" THEN "nil" ELSE outcome

\* A first run that returned nil, then a run that returned the scan error
\* out of a result channel that was already closed.
C16_Witness ==
  /\ Len(runs) = 2
  /\ runs[1].err = "nil" /\ runs[1].outcome = "eof"
  /\ mainPc = "returned" /\ mfErr = "scan"
  /\ errClosed

\* ----------------------------------------------------------------- C17
\* C17: the Items sent are, in archive order, one for each header tgz.Next
\* returned, the header just read being the only one that may still be
\* unsent; items is closed on every way out of ProcessFile, once, and only
\* after the Item of the last header was sent.
C17_OneItemPerHeader ==
  /\ Len(archive) = Len(emitted) + (IF pfPc = "send" THEN 1 ELSE 0)
  /\ \A i \in 1..Len(emitted) :
       /\ emitted[i].Path = archive[i].Name
       /\ emitted[i].Size \in {0, archive[i].Size}
  /\ pfPc = "send" => header = archive[Len(archive)]
  /\ pfPc = "closeItems" => ~itemsClosed
  /\ itemsClosed <=> pfPc \in {"closeErr", "done"}
  /\ itemsClosed => Len(emitted) = Len(archive)
  /\ \A k \in RunIds :
       /\ Len(runs[k].emitted) = Len(runs[k].archive)
       /\ NamesOf(runs[k].archive) = [i \in 1..Len(runs[k].emitted) |-> runs[k].emitted[i].Path]

\* ProcessFile has finished at the natural end of an archive of three
\* entries, one of them no regular file.
C17_Witness ==
  /\ pfPc = "done" /\ itemsClosed
  /\ outcome = "eof"
  /\ Len(emitted) = 3
  /\ \E i \in 1..3 : archive[i].Typeflag # TypeReg
  /\ archive[1].Name # archive[2].Name

\* ----------------------------------------------------------------- C18
\* C18: without suppression AddItems has sent one StatusLine for each Item
\* it has taken (the one in hand excepted), and the k-th StatusLine, in the
\* lines channel or in the hands of WriteLines, carries the path of the
\* k-th Item and the total at the call of mainFile plus the sizes of the
\* first k Items.
C18_RecordPerItem ==
  ~silentFlag =>
    /\ Len(sentLines) + (IF aiPc = "send" THEN 1 ELSE 0) = Len(emitted) - Len(items)
    /\ \A i \in 1..Len(lines) :
         LET k == Len(recvLines) + i
         IN /\ lines[i].Path = emitted[k].Path
            /\ IntValue(heap, lines[i].Total) =
                 startTotal + SumSizes(SubSeq(emitted, 1, k))
    /\ wlPc = "print" =>
         LET k == Len(recvLines)
         IN /\ wlItem.Path = emitted[k].Path
            /\ IntValue(heap, wlItem.Total) =
                 startTotal + SumSizes(SubSeq(emitted, 1, k))

\* ----------------------------------------------------------------- C19
\* C19: when mainFile starts the AddItems goroutine of a path, the AddItems
\* goroutine of the path before it has run its last statement (or none was
\* ever started), and the only step that changes the running total or the
\* words it points to is the dest.Add of the AddItems goroutine on an Item
\* it received.
C19_SingleAggregator ==
  [][ /\ mfStart => aiPc \in {"idle", "done"}
      /\ (total' # total \/ heap' # heap) =>
           /\ aiRecv
           /\ mfPc \in {"waitCount", "waitWriter", "recvResult"} ]_vars

\* The AddItems goroutine of the second path has just added an Item to a
\* total that the goroutine of the first path had raised above zero.
C19_Witness ==
  /\ fileIdx = 2
  /\ aiPc = "send"
  /\ startTotal > 0
  /\ IntValue(heap, total) > startTotal
  /\ runs[1].end = startTotal

\* ----------------------------------------------------------------- C20
\* C20: the archive file is open exactly from the successful os.Open to the
\* deferred file.Close(), which ProcessFile runs on the natural end, after
\* a gzip failure and after a scan failure; it is closed before items is
\* closed, hence when mainFile returns and when the next mainFile starts.
C20_FileClosedOnEveryExit ==
  /\ fileOpen <=> pfPc \in {"gzip", "next", "send", "closeFile"}
  /\ itemsClosed => ~fileOpen
  /\ mainPc = "returned" => ~fileOpen
  /\ mfPc = "start" => ~fileOpen
  /\ \A k \in RunIds : runs[k].outcome \in {"eof", "gzip", "scan", "open"}

\* mainFile has returned from a second path whose scan failed after the
\* file was opened, the first path having reached its natural end.
C20_Witness ==
  /\ mainPc = "returned"
  /\ fileIdx = 2
  /\ Len(runs) = 2
  /\ runs[1].outcome = "eof"
  /\ runs[2].outcome = "scan"
  /\ opened = <<1, 2>>
  /\ ~fileOpen

\* ----------------------------------------------------------------- C21
\* C21: no step sends on a closed channel and no step closes a channel
\* that is already closed: items grows only by the send of ProcessFile
\* and errChan only by its error sends, each while the channel is open;
\* lines grows only by the send of AddItems while lines is open; items
\* and errChan are closed only by the deferred closes of ProcessFile,
\* lines only by the deferred close of AddItems, each on an open channel;
\* a goroutine that still has a send or a close of a channel ahead of it
\* finds that channel open.
C21_NoSendOnClosedNoDoubleClose ==
  /\ [](/\ pfPc \in {"send", "closeItems"} => ~itemsClosed
        /\ pfPc \in {"open", "gzip", "next", "send", "closeFile", "closeItems", "closeErr"}
             => ~errClosed
        /\ aiPc \in {"recv", "send", "closeLines"} => ~linesClosed)
  /\ [][ /\ pfSend => ~itemsClosed
         /\ Len(items') > Len(items) => pfSend
         /\ Len(errChan') > Len(errChan) =>
              /\ ~errClosed
              /\ pfOpen \/ pfGzip \/ pfNext
         /\ aiSend => ~linesClosed
         /\ Len(lines') > Len(lines) => aiSend
         /\ pfCloseItems => ~itemsClosed
         /\ pfCloseErr => ~errClosed
         /\ aiCloseLines => ~linesClosed
         /\ (~itemsClosed /\ itemsClosed') => pfCloseItems
         /\ (~errClosed /\ errClosed') => pfCloseErr
         /\ (~linesClosed /\ linesClosed') => aiCloseLines ]_vars

\* All three channels of a run are closed after two Items, two
\* StatusLines and a scan error were sent on them.
C21_Witness ==
  /\ itemsClosed /\ linesClosed /\ errClosed
  /\ pfPc = "done" /\ aiPc = "done"
  /\ outcome = "scan"
  /\ Len(emitted) = 2
  /\ Len(sentLines) = 2

====
